---- MODULE Spec2Model ----
(***************************************************************************)
(* A model of timer.rs (src/src/lib.rs): a Timer handle owned by a caller, *)
(* the Communication thread (the Intake Relay) which forwards operations   *)
(* from an mpsc channel into the WaiterChannel (a Mutex<Vec<Op>> and a     *)
(* Condvar), and the Scheduler thread which owns a BinaryHeap<Schedule>,   *)
(* drains the WaiterChannel, runs the callbacks that are ready and sleeps  *)
(* until the next date.                                                    *)
(***************************************************************************)
EXTENDS Integers, Sequences, FiniteSets, TLC

\* Bounds of the model.
MaxItems == 2      \* number of Schedule the channel accepts from the caller
MaxTime  == 2      \* the clock runs over 0..MaxTime; MaxTime stands for "MaxTime or later"
MaxDelay == 1      \* largest delay given to schedule_with_delay
TicksPerSec == 2   \* resolution of the clock: a unit of time is 1/TicksPerSec second

NanosPerSec == 1000000000
NanosPerTick == NanosPerSec \div TicksPerSec

MinDelay == 0 - 1  \* a negative delay
Delays   == MinDelay..MaxDelay
Dates    == 0..MaxTime

VARIABLES
    clock,       \* UTC::now(), nondecreasing
    handle,      \* the Timer of the caller: "alive", "dropped" (Stop sent), "failed" (a send was refused)
    nextId,      \* identity of the next callback (each closure is a distinct value)
    chan,        \* the mpsc channel (tx, rx): Seq of Op
    relayPc,     \* Communication thread: "recv", "lock", "post", "done", "panicked"
    relayMsg,    \* the msg the Communication thread holds: <<>> or <<op>>
    lockHolder,  \* owner of waiter.messages (the Mutex): "none", "relay", "sched"
    poisoned,    \* the Mutex is poisoned (a thread panicked while holding it)
    messages,    \* waiter.messages: Seq of Op
    schedPc,     \* Scheduler thread: "lock","drain","exec","peek","running","sleep",
                 \*                   "waiting","relock","woken","stopped","panicked"
    heap,        \* self.heap: the set of Schedule held by the BinaryHeap
    now,         \* the local `now` of Scheduler::run (0 once it is out of scope)
    delay,       \* the local `delay` of Scheduler::run: <<>> is None, <<d>> is Some(d)
    wakeAt,      \* the clock value at which the wait_timeout in progress expires: <<>> or <<t>>
    executing,   \* the Schedule whose callback is being executed (a set, to observe overlap)
    invoked,     \* history: the callbacks invoked so far, in order
    discarded,   \* history: ids of the Schedule dropped, never invoked, because of Stop
    lost,        \* history: ids of the Schedule dropped, never invoked, because a thread
                 \*          panicked or a send was refused
    drainedDue   \* history: ids drained in the current iteration that were already due

vars == <<clock, handle, nextId, chan, relayPc, relayMsg, lockHolder, poisoned,
          messages, schedPc, heap, now, delay, wakeAt, executing, invoked,
          discarded, lost, drainedDue>>

callerVars == <<handle, nextId, chan>>
relayVars  == <<relayPc, relayMsg>>
schedVars  == <<schedPc, heap, now, delay, wakeAt, executing, invoked, drainedDue>>

----------------------------------------------------------------------------
\* Data

\* struct Schedule { date, cb }: the callback is represented by its identity.
Schedule(id, date) == [id |-> id, date |-> date]

\* enum Op { Schedule(Schedule), Stop }
OpSchedule(sched) == [type |-> "Schedule", sched |-> sched]
OpStop == [type |-> "Stop"]

None == <<>>
Some(x) == <<x>>

\* Ord for DateTime
DateCmp(a, b) == IF a < b THEN "Less" ELSE IF a > b THEN "Greater" ELSE "Equal"

\* Ordering::reverse
Reverse(ord) == IF ord = "Less" THEN "Greater" ELSE IF ord = "Greater" THEN "Less" ELSE "Equal"

\* A comparison that forgets to reverse the order of dates.
CmpNotReversed(self, other) == DateCmp(self.date, other.date)

\* impl Ord for Schedule: self.date.cmp(&other.date).reverse()
Cmp(self, other) == Reverse(DateCmp(self.date, other.date))

\* Variant: a container whose peek / pop yield an arbitrary element.
HeapTopAny(h) == h

\* BinaryHeap::peek / BinaryHeap::pop yield a greatest element under Ord; which
\* one among equal elements is left open.
HeapTop(h) == {s \in h : \A t \in h : Cmp(s, t) # "Less"}

\* A subtraction with its operands exchanged.
RemainingSwapped(sched, t) == t - sched.date

\* `sched.date - now`: the chrono Duration until the date of the first item.
Remaining(sched, t) == sched.date - t

\* Duration::num_seconds: the whole seconds of a duration, rounded towards zero.
NumSeconds(d) == IF d >= 0 THEN d \div TicksPerSec ELSE 0 - ((0 - d) \div TicksPerSec)

\* Duration::seconds
Seconds(sec) == sec * TicksPerSec

\* Duration::num_nanoseconds: Some(total nanoseconds), None when they do not
\* fit an i64 (about 292 years, beyond every duration that arises here).
NumNanoseconds(d) == Some(d * NanosPerTick)

\* `sec as u64`, `ns as u32`: the value itself when it is in range.  A negative
\* value wraps to 2^64 + sec, 2^32 + ns; these and a value of 2^32 or more are
\* beyond the integers that arise here, and None stands for the wrapped result.
AsU64(x) == IF x >= 0 THEN Some(x) ELSE None
AsU32(x) == IF x >= 0 THEN Some(x) ELSE None

\* sec, ns and std::time::Duration::new(sec as u64, ns as u32)
SleepDuration(d) ==
    LET sec == NumSeconds(d)
        ns  == NumNanoseconds(d - Seconds(sec))[1]
    IN  [secs |-> AsU64(sec), nanos |-> AsU32(ns)]

\* The length of the wait_timeout in units of time; a wrapped duration lasts
\* longer than the clock runs.
WaitTicks(duration) ==
    IF duration.secs = None \/ duration.nanos = None
      THEN MaxTime + 1
      ELSE duration.secs[1] * TicksPerSec + duration.nanos[1] \div NanosPerTick

\* A readiness test that is off by one: an item dated `now` is held back.
NotReadyOffByOne(sched, t) == sched.date >= t

\* A readiness test with the comparison the wrong way round.
NotReadyFlipped(sched, t) == sched.date < t

\* `sched.date > now`: the first item is not ready yet.
NotReady(sched, t) == sched.date > t

Ids(S) == {s.id : s \in S}
SeqIds(q) == {q[i].sched.id : i \in {j \in 1..Len(q) : q[j].type = "Schedule"}}
InvokedIds == {invoked[i].id : i \in 1..Len(invoked)}

\* A notify_one that wakes nobody.
NotifyOneLost(pc) == pc

\* Condvar::notify_one: wakes the Scheduler thread if it is blocked in wait /
\* wait_timeout, and is lost otherwise.
NotifyOne(pc) == IF pc = "waiting" THEN "relock" ELSE pc

RelayAlive == relayPc \in {"recv", "lock", "post"}

\* The Communication thread owns a MutexGuard `vec` from lock().unwrap() to the
\* end of the loop body.
RelayHoldsLock == relayPc = "post"

\* The Scheduler thread owns a MutexGuard from lock().unwrap() until wait /
\* wait_timeout takes it, and again from their return until the returned guard
\* is dropped.
SchedHoldsLock == schedPc \in {"drain", "exec", "peek", "running", "sleep", "woken"}

----------------------------------------------------------------------------
Init ==
    /\ clock = 0
    /\ handle = "alive"
    /\ nextId = 1
    /\ chan = <<>>
    /\ relayPc = "recv"
    /\ relayMsg = None
    /\ lockHolder = "none"
    /\ poisoned = FALSE
    /\ messages = <<>>
    /\ schedPc = "lock"
    /\ heap = {}
    /\ now = 0
    /\ delay = None
    /\ wakeAt = None
    /\ executing = {}
    /\ invoked = <<>>
    /\ discarded = {}
    /\ lost = {}
    /\ drainedDue = {}

\* Time passes.
Tick ==
    /\ clock < MaxTime
    /\ clock' = clock + 1
    /\ UNCHANGED <<callerVars, relayVars, lockHolder, poisoned, messages, schedVars, discarded, lost>>

----------------------------------------------------------------------------
\* The caller

\* Sender::send: fails iff the Receiver has been dropped, which happens when the
\* Communication thread ends.
SendOk == RelayAlive

\* A schedule_with_date that drops the result of send instead of unwrapping it.
ScheduleWithDateSwallowing(date) ==
    /\ handle = "alive"
    /\ (nextId <= MaxItems \/ ~SendOk)
    /\ date <= MaxTime
    /\ nextId' = nextId + 1
    /\ IF SendOk
         THEN /\ chan' = Append(chan, OpSchedule(Schedule(nextId, date)))
              /\ UNCHANGED lost
         ELSE /\ lost' = lost \cup {nextId}
              /\ UNCHANGED chan
    /\ UNCHANGED <<clock, handle, relayVars, lockHolder, poisoned, messages, schedVars, discarded>>

\* A schedule_with_date that waits for the Mutex to be free before it sends.
ScheduleWithDateBlocking(date) ==
    /\ handle = "alive"
    /\ lockHolder = "none"
    /\ (nextId <= MaxItems \/ ~SendOk)
    /\ date <= MaxTime
    /\ nextId' = nextId + 1
    /\ IF SendOk
         THEN /\ chan' = Append(chan, OpSchedule(Schedule(nextId, date)))
              /\ UNCHANGED <<handle, lost>>
         ELSE /\ handle' = "failed"
              /\ lost' = lost \cup {nextId}
              /\ UNCHANGED chan
    /\ UNCHANGED <<clock, relayVars, lockHolder, poisoned, messages, schedVars, discarded>>

\* Timer::schedule_with_date: self.tx.send(Op::Schedule(..)).unwrap()
\* (the bound is on the Schedule that enter the channel: a refused send adds none)
ScheduleWithDate(date) ==
    /\ handle = "alive"
    /\ (nextId <= MaxItems \/ ~SendOk)
    /\ date <= MaxTime
    /\ nextId' = nextId + 1
    /\ IF SendOk
         THEN /\ chan' = Append(chan, OpSchedule(Schedule(nextId, date)))
              /\ UNCHANGED <<handle, lost>>
         ELSE /\ handle' = "failed"
              /\ lost' = lost \cup {nextId}
              /\ UNCHANGED chan
    /\ UNCHANGED <<clock, relayVars, lockHolder, poisoned, messages, schedVars, discarded>>

\* Timer::schedule_with_delay: self.schedule_with_date(UTC::now() + delay, cb)
ScheduleWithDelay(d) == ScheduleWithDate(clock + d)

\* Variant: a destructor that first waits until no callback is running.
DropWaitingForCallback ==
    /\ handle = "alive"
    /\ executing = {}
    /\ IF SendOk
         THEN /\ chan' = Append(chan, OpStop)
              /\ handle' = "dropped"
         ELSE /\ handle' = "failed"
              /\ UNCHANGED chan
    /\ UNCHANGED <<clock, nextId, relayVars, lockHolder, poisoned, messages, schedVars, discarded, lost>>

\* Drop for Timer: self.tx.send(Op::Stop).unwrap()
Drop ==
    /\ handle = "alive"
    /\ IF SendOk
         THEN /\ chan' = Append(chan, OpStop)
              /\ handle' = "dropped"
         ELSE /\ handle' = "failed"
              /\ UNCHANGED chan
    /\ UNCHANGED <<clock, nextId, relayVars, lockHolder, poisoned, messages, schedVars, discarded, lost>>

----------------------------------------------------------------------------
\* The Communication thread (Timer::with_capacity, first thread::spawn)

\* for msg in rx.iter()
RelayRecv ==
    /\ relayPc = "recv"
    /\ chan # <<>>
    /\ relayMsg' = Some(Head(chan))
    /\ chan' = Tail(chan)
    /\ relayPc' = "lock"
    /\ UNCHANGED <<clock, handle, nextId, lockHolder, poisoned, messages, schedVars, discarded, lost>>

\* A lock() that recovers the guard of a poisoned Mutex instead of unwrapping.
RelayLockIgnoringPoison ==
    /\ relayPc = "lock"
    /\ lockHolder = "none"
    /\ relayPc' = "post"
    /\ lockHolder' = "relay"
    /\ UNCHANGED <<clock, handle, nextId, chan, relayMsg, poisoned, messages, heap, schedPc,
                   now, delay, wakeAt, executing, invoked, discarded, lost, drainedDue>>

\* let mut vec = waiter.messages.lock().unwrap(): blocks while the Mutex is
\* held; panics when it is poisoned, which ends the thread and drops rx.
RelayLock ==
    /\ relayPc = "lock"
    /\ lockHolder = "none"
    /\ IF poisoned
         THEN /\ relayPc' = "panicked"
              /\ relayMsg' = None
              /\ chan' = <<>>
              /\ lost' = lost \cup SeqIds(relayMsg) \cup SeqIds(chan)
              /\ UNCHANGED lockHolder
         ELSE /\ relayPc' = "post"
              /\ lockHolder' = "relay"
              /\ UNCHANGED <<relayMsg, chan, lost>>
    /\ UNCHANGED <<clock, handle, nextId, poisoned, messages, heap, schedPc, now, delay,
                   wakeAt, executing, invoked, discarded, drainedDue>>

\* Variant: the Stop branch pushes Stop behind the backlog without clearing it.
RelayPostNoClear ==
    /\ relayPc = "post"
    /\ LET msg == relayMsg[1] IN
         IF msg.type = "Schedule"
           THEN /\ messages' = Append(messages, msg)
                /\ relayPc' = "recv"
                /\ UNCHANGED <<chan, discarded, lost>>
           ELSE /\ messages' = Append(messages, OpStop)
                /\ relayPc' = "done"
                /\ chan' = <<>>
                /\ discarded' = discarded \cup SeqIds(chan)
    /\ relayMsg' = None
    /\ schedPc' = NotifyOne(schedPc)
    /\ wakeAt' = IF schedPc' = "waiting" THEN wakeAt ELSE None
    /\ lockHolder' = "none"
    /\ UNCHANGED <<clock, handle, nextId, poisoned, heap, now, delay, executing,
                   invoked, lost, drainedDue>>

\* Variant: the Schedule branch pushes without signalling the Condvar.
RelayPostNoNotifyOnSchedule ==
    /\ relayPc = "post"
    /\ LET msg == relayMsg[1] IN
         IF msg.type = "Schedule"
           THEN /\ messages' = Append(messages, msg)
                /\ relayPc' = "recv"
                /\ UNCHANGED <<chan, discarded, schedPc>>
           ELSE /\ messages' = <<OpStop>>
                /\ relayPc' = "done"
                /\ chan' = <<>>
                /\ discarded' = discarded \cup SeqIds(messages) \cup SeqIds(chan)
                /\ schedPc' = NotifyOne(schedPc)
    /\ relayMsg' = None
    /\ wakeAt' = IF schedPc' = "waiting" THEN wakeAt ELSE None
    /\ lockHolder' = "none"
    /\ UNCHANGED <<clock, handle, nextId, poisoned, heap, now, delay, executing,
                   invoked, lost, drainedDue>>

\* match msg { Schedule(sched) => { vec.push; notify_one }
\*             Stop => { vec.clear; vec.push(Stop); notify_one; return } }
\* The guard `vec` is dropped at the end of the iteration or at the return.
RelayPost ==
    /\ relayPc = "post"
    /\ LET msg == relayMsg[1] IN
         IF msg.type = "Schedule"
           THEN /\ messages' = Append(messages, msg)
                /\ relayPc' = "recv"
                /\ UNCHANGED <<chan, discarded, lost>>
           ELSE /\ messages' = <<OpStop>>
                /\ relayPc' = "done"
                /\ chan' = <<>>
                /\ discarded' = discarded \cup SeqIds(messages) \cup SeqIds(chan)
    /\ relayMsg' = None
    /\ schedPc' = NotifyOne(schedPc)
    /\ wakeAt' = IF schedPc' = "waiting" THEN wakeAt ELSE None
    /\ lockHolder' = "none"
    /\ UNCHANGED <<clock, handle, nextId, poisoned, heap, now, delay, executing,
                   invoked, lost, drainedDue>>

----------------------------------------------------------------------------
\* The Scheduler thread (Scheduler::run)

\* A drain that does not return on Stop.
RECURSIVE DrainIgnoringStop(_, _)
DrainIgnoringStop(msgs, h) ==
    IF msgs = <<>> THEN [heap |-> h, stop |-> FALSE]
    ELSE IF Head(msgs).type = "Stop" THEN DrainIgnoringStop(Tail(msgs), h)
    ELSE DrainIgnoringStop(Tail(msgs), h \cup {Head(msgs).sched})

\* for msg in lock.drain(..): pushes every Schedule onto the heap up to the
\* first Stop. [heap, stop]
RECURSIVE DrainInto(_, _)
DrainInto(msgs, h) ==
    IF msgs = <<>> THEN [heap |-> h, stop |-> FALSE]
    ELSE IF Head(msgs).type = "Stop" THEN [heap |-> h, stop |-> TRUE]
    ELSE DrainInto(Tail(msgs), h \cup {Head(msgs).sched})

\* A drain that leaves the `for` loop on Stop (`break`) instead of returning.
SchedDrainBreakingOnStop ==
    /\ schedPc = "drain"
    /\ LET r == DrainInto(messages, heap) IN
         /\ schedPc' = "exec"
         /\ heap' = r.heap
         /\ drainedDue' = {s.id : s \in {t \in r.heap \ heap : t.date <= clock}}
         /\ discarded' = IF r.stop THEN discarded \cup SeqIds(messages) ELSE discarded
         /\ UNCHANGED lockHolder
    /\ messages' = <<>>
    /\ delay' = None
    /\ UNCHANGED <<clock, callerVars, relayVars, poisoned, now, wakeAt, executing, invoked, lost>>

\* let mut lock = waiter.messages.lock().unwrap()
SchedLock ==
    /\ schedPc = "lock"
    /\ lockHolder = "none"
    /\ IF poisoned
         THEN /\ schedPc' = "panicked"
              /\ heap' = {}
              /\ lost' = lost \cup Ids(heap)
              /\ UNCHANGED lockHolder
         ELSE /\ schedPc' = "drain"
              /\ lockHolder' = "sched"
              /\ UNCHANGED <<heap, lost>>
    /\ UNCHANGED <<clock, callerVars, relayVars, poisoned, messages, now, delay, wakeAt,
                   executing, invoked, discarded, drainedDue>>

\* Variant: a drain that gives the Mutex up once messages is emptied.
SchedDrainReleasing ==
    /\ schedPc = "drain"
    /\ LET r == DrainInto(messages, heap) IN
         IF r.stop
           THEN /\ schedPc' = "stopped"
                /\ heap' = {}
                /\ discarded' = discarded \cup Ids(r.heap) \cup SeqIds(messages)
                /\ UNCHANGED drainedDue
           ELSE /\ schedPc' = "exec"
                /\ heap' = r.heap
                /\ drainedDue' = {s.id : s \in {t \in r.heap \ heap : t.date <= clock}}
                /\ UNCHANGED discarded
    /\ lockHolder' = "none"
    /\ messages' = <<>>
    /\ delay' = None
    /\ UNCHANGED <<clock, callerVars, relayVars, poisoned, now, wakeAt, executing, invoked, lost>>

\* Variant: a drain that reads messages without removing them.
SchedDrainKeepingMessages ==
    /\ schedPc = "drain"
    /\ LET r == DrainInto(messages, heap) IN
         IF r.stop
           THEN /\ schedPc' = "stopped"
                /\ heap' = {}
                /\ discarded' = discarded \cup Ids(r.heap) \cup SeqIds(messages)
                /\ lockHolder' = "none"
                /\ messages' = <<>>
                /\ UNCHANGED drainedDue
           ELSE /\ schedPc' = "exec"
                /\ heap' = r.heap
                /\ drainedDue' = {s.id : s \in {t \in r.heap \ heap : t.date <= clock}}
                /\ UNCHANGED <<discarded, lockHolder, messages>>
    /\ delay' = None
    /\ UNCHANGED <<clock, callerVars, relayVars, poisoned, now, wakeAt, executing, invoked, lost>>

\* Pop all messages; `return` on Stop (which drops the rest of the drained
\* messages, the lock and the Scheduler with its heap); then `let mut delay = None`.
SchedDrain ==
    /\ schedPc = "drain"
    /\ LET r == DrainInto(messages, heap) IN
         IF r.stop
           THEN /\ schedPc' = "stopped"
                /\ heap' = {}
                /\ discarded' = discarded \cup Ids(r.heap) \cup SeqIds(messages)
                /\ lockHolder' = "none"
                /\ UNCHANGED drainedDue
           ELSE /\ schedPc' = "exec"
                /\ heap' = r.heap
                /\ drainedDue' = {s.id : s \in {t \in r.heap \ heap : t.date <= clock}}
                /\ UNCHANGED <<discarded, lockHolder>>
    /\ messages' = <<>>
    /\ delay' = None
    /\ UNCHANGED <<clock, callerVars, relayVars, poisoned, now, wakeAt, executing, invoked, lost>>

\* let now = UTC::now()
SchedReadNow ==
    /\ schedPc = "exec"
    /\ now' = clock
    /\ schedPc' = "peek"
    /\ UNCHANGED <<clock, callerVars, relayVars, lockHolder, poisoned, messages, heap, delay,
                   wakeAt, executing, invoked, discarded, lost, drainedDue>>

\* An Execute step that does not wait for the callback to return.
SchedPeekSpawning ==
    /\ schedPc = "peek"
    /\ IF heap = {}
         THEN /\ schedPc' = "sleep"
              /\ UNCHANGED <<heap, delay, executing, invoked>>
         ELSE \E sched \in HeapTop(heap) :
                IF NotReady(sched, now)
                  THEN /\ delay' = Some(Remaining(sched, now))
                       /\ schedPc' = "sleep"
                       /\ UNCHANGED <<heap, executing, invoked>>
                  ELSE /\ heap' = heap \ {sched}
                       /\ executing' = executing \cup {sched}
                       /\ invoked' = Append(invoked, sched)
                       /\ schedPc' = "exec"
                       /\ UNCHANGED delay
    /\ UNCHANGED <<clock, callerVars, relayVars, lockHolder, poisoned, messages, now, wakeAt,
                   discarded, lost, drainedDue>>

\* if let Some(sched) = self.heap.peek() { if sched.date > now { delay = ..; break } }
\* else { break }; let mut sched = self.heap.pop().unwrap(); (sched.cb)()
SchedPeek ==
    /\ schedPc = "peek"
    /\ IF heap = {}
         THEN /\ schedPc' = "sleep"
              /\ UNCHANGED <<heap, delay, executing, invoked>>
         ELSE \E sched \in HeapTop(heap) :
                IF NotReady(sched, now)
                  THEN /\ delay' = Some(Remaining(sched, now))
                       /\ schedPc' = "sleep"
                       /\ UNCHANGED <<heap, executing, invoked>>
                  ELSE /\ heap' = heap \ {sched}
                       /\ executing' = executing \cup {sched}
                       /\ invoked' = Append(invoked, sched)
                       /\ schedPc' = "running"
                       /\ UNCHANGED delay
    /\ UNCHANGED <<clock, callerVars, relayVars, lockHolder, poisoned, messages, now, wakeAt,
                   discarded, lost, drainedDue>>

\* (sched.cb)() returns; back to the top of the inner loop.
CallbackReturn ==
    /\ schedPc = "running"
    /\ executing' = {s \in executing : s.id # invoked[Len(invoked)].id}
    /\ schedPc' = "exec"
    /\ UNCHANGED <<clock, callerVars, relayVars, lockHolder, poisoned, messages, heap, now,
                   delay, wakeAt, invoked, discarded, lost, drainedDue>>

\* (sched.cb)() panics: the thread unwinds, dropping the MutexGuard `lock`
\* (which poisons and releases the Mutex) and the Scheduler with its heap.
CallbackPanic ==
    /\ schedPc = "running"
    /\ executing' = {s \in executing : s.id # invoked[Len(invoked)].id}
    /\ schedPc' = "panicked"
    /\ poisoned' = TRUE
    /\ lockHolder' = "none"
    /\ heap' = {}
    /\ lost' = lost \cup Ids(heap)
    /\ UNCHANGED <<clock, callerVars, relayVars, messages, now, delay, wakeAt, invoked,
                   discarded, drainedDue>>

\* A Sleep step that ignores the delay and always waits without a timeout.
SchedWaitNoTimeout ==
    /\ schedPc = "sleep"
    /\ schedPc' = "waiting"
    /\ lockHolder' = "none"
    /\ wakeAt' = None
    /\ now' = 0
    /\ delay' = None
    /\ UNCHANGED <<clock, callerVars, relayVars, poisoned, messages, heap, executing,
                   invoked, discarded, lost, drainedDue>>

\* Variant: a Sleep step that blocks without giving the Mutex up.
SchedWaitHoldingLock ==
    /\ schedPc = "sleep"
    /\ schedPc' = "waiting"
    /\ wakeAt' = IF delay = None THEN None
                 ELSE Some(clock + WaitTicks(SleepDuration(delay[1])))
    /\ now' = 0
    /\ delay' = None
    /\ UNCHANGED <<clock, callerVars, relayVars, lockHolder, poisoned, messages, heap,
                   executing, invoked, discarded, lost, drainedDue>>

\* match delay { None => condvar.wait(lock), Some(delay) => condvar.wait_timeout(lock, duration) }
\* Both release the Mutex while the thread is blocked.
SchedWait ==
    /\ schedPc = "sleep"
    /\ schedPc' = "waiting"
    /\ lockHolder' = "none"
    /\ wakeAt' = IF delay = None THEN None
                 ELSE Some(clock + WaitTicks(SleepDuration(delay[1])))
    /\ now' = 0
    /\ delay' = None
    /\ UNCHANGED <<clock, callerVars, relayVars, poisoned, messages, heap, executing,
                   invoked, discarded, lost, drainedDue>>

\* The duration of wait_timeout has elapsed (at MaxTime any duration has).
SchedTimeout ==
    /\ schedPc = "waiting"
    /\ wakeAt # None
    /\ (clock >= wakeAt[1] \/ clock = MaxTime)
    /\ schedPc' = "relock"
    /\ wakeAt' = None
    /\ UNCHANGED <<clock, callerVars, relayVars, lockHolder, poisoned, messages, heap, now,
                   delay, executing, invoked, discarded, lost, drainedDue>>

\* Condvar::wait and wait_timeout may wake up spuriously.
SchedSpuriousWake ==
    /\ schedPc = "waiting"
    /\ schedPc' = "relock"
    /\ wakeAt' = None
    /\ UNCHANGED <<clock, callerVars, relayVars, lockHolder, poisoned, messages, heap, now,
                   delay, executing, invoked, discarded, lost, drainedDue>>

\* wait / wait_timeout re-acquire the Mutex before they return.
SchedRelock ==
    /\ schedPc = "relock"
    /\ lockHolder = "none"
    /\ lockHolder' = "sched"
    /\ schedPc' = "woken"
    /\ UNCHANGED <<clock, callerVars, relayVars, poisoned, messages, heap, now, delay, wakeAt,
                   executing, invoked, discarded, lost, drainedDue>>

\* `let _ = ...` drops the returned guard, releasing the Mutex; the outer loop
\* goes back to waiter.messages.lock().
SchedWakeUnlock ==
    /\ schedPc = "woken"
    /\ lockHolder' = "none"
    /\ schedPc' = "lock"
    /\ UNCHANGED <<clock, callerVars, relayVars, poisoned, messages, heap, now, delay, wakeAt,
                   executing, invoked, discarded, lost, drainedDue>>

----------------------------------------------------------------------------
Caller ==
    \/ \E d \in Delays : ScheduleWithDelay(d)
    \/ \E t \in Dates : ScheduleWithDate(t)
    \/ Drop

Relay == RelayRecv \/ RelayLock \/ RelayPost

SchedulerNoFail ==
    \/ SchedLock \/ SchedDrain \/ SchedReadNow \/ SchedPeek \/ CallbackReturn
    \/ SchedWait \/ SchedTimeout \/ SchedSpuriousWake \/ SchedRelock \/ SchedWakeUnlock

Next == Tick \/ Caller \/ Relay \/ SchedulerNoFail \/ CallbackPanic

Spec == Init /\ [][Next]_vars

\* The callbacks return (none panics); threads that can take a step eventually
\* take it, a thread blocked on the Mutex gets it if it is free again and again,
\* and time passes.  The caller and spurious wake-ups are under no obligation.
NextNoFail == Tick \/ Caller \/ Relay \/ SchedulerNoFail

Fairness ==
    /\ WF_vars(Tick)
    /\ WF_vars(RelayRecv) /\ SF_vars(RelayLock) /\ WF_vars(RelayPost)
    /\ SF_vars(SchedLock) /\ WF_vars(SchedDrain) /\ WF_vars(SchedReadNow)
    /\ WF_vars(SchedPeek) /\ WF_vars(CallbackReturn) /\ WF_vars(SchedWait)
    /\ WF_vars(SchedTimeout) /\ SF_vars(SchedRelock) /\ WF_vars(SchedWakeUnlock)

LiveSpec == Init /\ [][NextNoFail]_vars /\ Fairness

----------------------------------------------------------------------------
\* Properties

\* C1 (no early execution): a callback is executing only after a clock
\* reading `now` at or after its date, which the clock has reached; no callback
\* is executing before its date.
NoEarlyExecution ==
    \A s \in executing : s.date <= now /\ now <= clock

\* An item dated in the future of the initial clock is being executed exactly
\* at its date.
ExecutingOnTime ==
    \E s \in executing : s.date > 0 /\ s.date = now /\ now = clock

\* C2, as stated (ordering under any interleaving): the callbacks invoked so
\* far were invoked in nondecreasing order of their dates.
InvokedInDateOrder ==
    \A i, j \in 1..Len(invoked) : i < j => invoked[i].date <= invoked[j].date

\* C2, amended (ordering among the items that are in the heap together): no
\* item held by the heap has an earlier date than the callback being executed.
ExecutingIsEarliestQueued ==
    \A s \in executing : \A t \in heap : s.date <= t.date

\* A callback is executing while the heap holds an item with a later date.
ExecutingBeforeLaterQueued ==
    \E s \in executing : \E t \in heap : s.date < t.date

\* C3, as stated (shutdown silence from the moment Drop has sent Stop): once
\* the handle is dropped no callback is invoked.
NoInvokeAfterDrop == [][handle = "dropped" => invoked' = invoked]_vars

\* C3, amended (shutdown silence from the moment the relay has posted Stop
\* into waiter.messages): once the Communication thread has forwarded Stop
\* and returned, no callback is invoked.
NoInvokeAfterStopPosted == [][relayPc = "done" => invoked' = invoked]_vars

\* Stop has been posted and not yet drained while the heap holds a due item.
StopPostedWithDueItemQueued ==
    /\ relayPc = "done"
    /\ messages = <<OpStop>>
    /\ \E s \in heap : s.date <= clock

\* C4 (shutdown termination): when the callbacks return and scheduling is
\* fair, a dropped handle leads to both threads having ended: the
\* Communication thread after forwarding Stop, the Scheduler thread after
\* draining it.
ShutdownTerminates ==
    (handle = "dropped") ~> (relayPc = "done" /\ schedPc = "stopped")

\* Both threads have ended after a drop that cancelled a queued item.
BothStoppedAfterDrop ==
    /\ handle = "dropped"
    /\ relayPc = "done"
    /\ schedPc = "stopped"
    /\ lockHolder = "none"
    /\ discarded # {}

\* C5 (eventual execution): when the callbacks return and scheduling is fair,
\* every Schedule sent by the caller is eventually invoked, unless the handle
\* is dropped: again and again, every Schedule sent so far has been invoked
\* (or the handle has been dropped).
EventuallyInvoked ==
    []<>(handle = "dropped" \/ \A id \in 1..(nextId - 1) : id \in InvokedIds)

\* Every Schedule the caller sent has been invoked, one of them after the
\* Scheduler thread slept until its date, and the handle is still alive.
AllInvokedHandleAlive ==
    /\ handle = "alive"
    /\ nextId = MaxItems + 1
    /\ InvokedIds = 1..MaxItems
    /\ \E i \in 1..Len(invoked) : invoked[i].date = MaxTime

\* C6 (immediate-due): the Scheduler thread does not go to sleep in an
\* iteration before it has invoked every item that it drained in that
\* iteration and that was already due when drained.
DueAtDrainInvokedBeforeSleep ==
    schedPc \in {"sleep", "waiting"} => drainedDue \subseteq InvokedIds

\* An item sent with a negative delay was due when drained and has been
\* invoked in that iteration, which now goes to sleep with an item sent
\* before it still in the heap.
NegativeDelayInvokedBeforeEarlierSent ==
    /\ schedPc = "sleep"
    /\ \E i \in 1..Len(invoked) :
         /\ invoked[i].id \in drainedDue
         /\ invoked[i].date < 0
         /\ \E t \in heap : t.id < invoked[i].id

\* C7 (callable exclusivity): at most one callback is executing, and only
\* while the Scheduler thread is inside `(sched.cb)()`.
AtMostOneExecuting ==
    /\ Cardinality(executing) <= 1
    /\ executing # {} => schedPc = "running"

\* A callback is executing while another item, already due, waits in the heap.
ExecutingWhileAnotherIsDue ==
    /\ executing # {}
    /\ \E t \in heap : t.date <= clock

\* C8 (caller non-blocking): while the handle is alive and the Communication
\* thread has not ended, drop and (within the bound) schedule_with_date can
\* be taken in every state and complete without a failure and without
\* touching the Mutex, whoever holds it.
CallerNeverBlocks ==
    (handle = "alive" /\ RelayAlive) =>
        /\ ENABLED (Drop /\ handle' = "dropped" /\ lockHolder' = lockHolder)
        /\ nextId <= MaxItems =>
             ENABLED (ScheduleWithDate(clock) /\ handle' = "alive" /\ lockHolder' = lockHolder)

\* The Scheduler thread holds the Mutex across a callback while a Schedule
\* the caller has sent sits in the channel, and the handle is alive.
SentWhileMutexHeld ==
    /\ handle = "alive"
    /\ schedPc = "running"
    /\ lockHolder = "sched"
    /\ \E i \in 1..Len(chan) : chan[i].type = "Schedule"

\* C9, as stated (fail-open): after a callback has failed the Communication
\* thread keeps forwarding and no caller-side failure occurs.
RelayKeepsForwardingAfterFailure ==
    schedPc = "panicked" => (relayPc # "panicked" /\ handle # "failed")

\* C9, amended (inert after a failure): once a callback has failed, nothing
\* is appended to waiter.messages any more (the Communication thread never
\* gets the poisoned Mutex) and no callback is invoked.
InertAfterCallbackFailure ==
    [][schedPc = "panicked" =>
         (messages' = messages /\ invoked' = invoked /\ relayPc' # "post")]_vars

\* After a callback failed, a Schedule was sent successfully and was dropped by
\* the Communication thread, which has ended; the caller has seen no failure.
SentAfterFailureWasDropped ==
    /\ schedPc = "panicked"
    /\ relayPc = "panicked"
    /\ handle = "alive"
    /\ (nextId - 1) \in lost

\* C10 (usage error is surfaced): a schedule_with_date made once the
\* Communication thread has ended fails at the caller and enqueues nothing.
SendAfterRelayEndFails ==
    [][(~RelayAlive /\ nextId' # nextId) =>
         (handle' = "failed" /\ chan' = chan /\ messages' = messages)]_vars

\* A schedule_with_date has failed at the caller after a callback failure had
\* ended the Scheduler thread and then the Communication thread.
SubmissionFailedAfterCallbackFailure ==
    /\ handle = "failed"
    /\ schedPc = "panicked"
    /\ relayPc = "panicked"
    /\ nextId > MaxItems + 1

\* C11 (no resurrection after Stop): a drain that finds Stop ends the
\* Scheduler thread at once, and once it has ended it stays ended, invokes
\* no callback and keeps no item in its heap.
NoResurrectionAfterStop ==
    [][/\ (schedPc = "drain" /\ messages = <<OpStop>> /\ schedPc' # schedPc)
            => (schedPc' = "stopped" /\ invoked' = invoked)
       /\ schedPc = "stopped"
            => (schedPc' = "stopped" /\ invoked' = invoked /\ heap' = {} /\ executing' = {})]_vars

\* The Scheduler thread has ended on Stop at a time when every date has passed,
\* with an item cancelled and no callback ever invoked.
StoppedWithDueItemCancelled ==
    /\ schedPc = "stopped"
    /\ clock = MaxTime
    /\ discarded # {}
    /\ invoked = <<>>

\* C12 (in-flight callback is not interrupted): while a callback runs the
\* handle can be dropped at once, the drop leaves the callback running, the
\* callback ends only by returning or by its own panic, messages cannot
\* change under it, and the Scheduler thread stops only from its drain.
InFlightCallbackNotInterrupted ==
    /\ [](schedPc = "running" /\ handle = "alive" /\ RelayAlive
            => ENABLED (Drop /\ handle' = "dropped"))
    /\ [][schedPc = "running" =>
             /\ schedPc' \in {"running", "exec", "panicked"}
             /\ messages' = messages
             /\ (schedPc' = "exec" => (executing' = {} /\ invoked' = invoked))
             /\ (handle' # handle => (schedPc' = "running" /\ executing' = executing))]_vars
    /\ [][(schedPc' = "stopped" /\ schedPc # "stopped") => schedPc = "drain"]_vars

\* The handle is dropped, a callback is still running, and the Communication
\* thread already holds the Stop and waits for the Mutex.
DroppedWhileCallbackRuns ==
    /\ handle = "dropped"
    /\ schedPc = "running"
    /\ executing # {}
    /\ relayPc = "lock"
    /\ relayMsg = <<OpStop>>

\* C13 (no lost wake-up): the Scheduler thread is never blocked in wait or
\* wait_timeout while messages is non-empty, and whatever the Communication
\* thread has pushed to messages is eventually drained by the Scheduler thread.
NoLostWakeup ==
    /\ [](schedPc = "waiting" => messages = <<>>)
    /\ (messages # <<>>) ~> (messages = <<>> /\ schedPc \in {"exec", "stopped"})

\* The Scheduler thread was blocked in the untimed wait (empty heap), a push
\* has signalled it, and it is about to re-acquire the Mutex and drain.
WokenFromUntimedWaitByPush ==
    /\ schedPc = "relock"
    /\ messages # <<>>
    /\ messages[1].type = "Schedule"
    /\ heap = {}
    /\ invoked = <<>>

\* C14 (Stop replaces the backlog): if messages contains Stop then Stop is its
\* only element and the Communication thread has exited; once exited it never
\* pushes again; a Schedule the Stop replaced in messages is never invoked.
StopReplacesBacklog ==
    /\ []((\E i \in 1..Len(messages) : messages[i].type = "Stop")
             => (messages = <<OpStop>> /\ relayPc = "done"))
    /\ [](discarded \cap InvokedIds = {})
    /\ [][(relayPc = "post" /\ relayMsg = <<OpStop>> /\ relayPc' # relayPc)
             => (/\ messages' = <<OpStop>>
                 /\ relayPc' = "done"
                 /\ SeqIds(messages) \subseteq discarded')]_vars
    /\ [][relayPc = "done"
             => (relayPc' = "done" /\ (messages' = messages \/ messages' = <<>>))]_vars

\* Stop is alone in messages after it replaced a buffered Schedule there,
\* which was never drained.
StopAloneAfterBacklogCleared ==
    /\ messages = <<OpStop>>
    /\ relayPc = "done"
    /\ discarded # {}
    /\ heap = {}
    /\ invoked = <<>>
    /\ schedPc \in {"lock", "relock"}

\* C15 (Mutex released while sleeping): at most one thread holds the Mutex,
\* messages changes only in a step of the thread that holds it, the Scheduler
\* thread blocked in wait / wait_timeout does not hold it, and a Communication
\* thread that wants it during the sleep can take it.
LockReleasedWhileSleeping ==
    /\ [](/\ ~(RelayHoldsLock /\ SchedHoldsLock)
          /\ lockHolder = "relay" <=> RelayHoldsLock
          /\ lockHolder = "sched" <=> SchedHoldsLock
          /\ schedPc \in {"waiting", "relock"} => lockHolder # "sched")
    /\ [](schedPc = "waiting" /\ relayPc = "lock" /\ ~poisoned
            => ENABLED (RelayLock /\ relayPc' = "post" /\ schedPc' = "waiting"))
    /\ [][messages' # messages
            => \/ (RelayHoldsLock /\ lockHolder = "relay" /\ relayPc' # "post")
               \/ (SchedHoldsLock /\ lockHolder = "sched" /\ schedPc = "drain")]_vars

\* The Scheduler thread is blocked in wait_timeout with an item in its heap
\* while the Communication thread holds the Mutex to push the next one.
RelayHoldsLockDuringSleep ==
    /\ schedPc = "waiting"
    /\ wakeAt # None
    /\ heap # {}
    /\ relayPc = "post"
    /\ lockHolder = "relay"
    /\ relayMsg[1].type = "Schedule"

\* The places a sent Schedule can be in, as sets of ids: the channel (with the
\* message the Communication thread has received and not pushed yet),
\* messages, the heap, a running callback, a callback that has ended.
InChannel == SeqIds(chan) \cup SeqIds(relayMsg)
InMessages == SeqIds(messages)
InHeap == Ids(heap)
BeingExecuted == Ids(executing)
Executed == InvokedIds \ Ids(executing)

NoDuplicates ==
    /\ \A i, j \in 1..Len(chan) :
          (i # j /\ chan[i].type = "Schedule" /\ chan[j].type = "Schedule")
              => chan[i].sched.id # chan[j].sched.id
    /\ \A i, j \in 1..Len(messages) :
          (i # j /\ messages[i].type = "Schedule" /\ messages[j].type = "Schedule")
              => messages[i].sched.id # messages[j].sched.id
    /\ \A i, j \in 1..Len(invoked) : i # j => invoked[i].id # invoked[j].id
    /\ \A s, t \in heap : s.id = t.id => s = t
    /\ SeqIds(chan) \cap SeqIds(relayMsg) = {}

Partition(places) ==
    /\ \A id \in 1..(nextId - 1) : \E i \in 1..Len(places) : id \in places[i]
    /\ \A i, j \in 1..Len(places) : i # j => places[i] \cap places[j] = {}

\* C16 as stated: every sent item is in exactly one of the channel, messages,
\* the heap, being executed, executed, or discarded by Stop.
EachItemInOnePlaceOrStopped ==
    Partition(<<InChannel, InMessages, InHeap, BeingExecuted, Executed, discarded>>)

\* C16 (item conservation, at most one invocation): every sent item is in
\* exactly one of the channel, messages, the heap, being executed, executed,
\* discarded by Stop, or dropped with a thread that a callback panic ended (or
\* by the send that such a thread's end made fail); no item is duplicated
\* and none is invoked twice; a drain without Stop moves every Schedule of
\* messages into the heap and leaves messages empty.
ItemConservation ==
    /\ [](Partition(<<InChannel, InMessages, InHeap, BeingExecuted, Executed, discarded, lost>>))
    /\ [](NoDuplicates)
    /\ [](lost # {} => poisoned)
    /\ [][(schedPc = "drain" /\ schedPc' = "exec")
            => (messages' = <<>> /\ InHeap' = InHeap \cup InMessages)]_vars

\* A callback has panicked while another item was waiting in the heap: that
\* item is gone with the Scheduler thread, although no Stop was sent.
QueuedItemLostByCallbackPanic ==
    /\ schedPc = "panicked"
    /\ handle = "alive"
    /\ relayPc # "panicked"
    /\ lost # {}
    /\ discarded = {}
    /\ Len(invoked) = 1

\* C17 (queue ordering): what peek and pop yield from a non-empty heap has the
\* least date in the heap, also when it was pushed last; the comparison of two
\* Schedule looks at their dates only; on an empty heap peek yields nothing:
\* no item is popped or invoked and no delay is recorded.
QueueYieldsEarliest ==
    /\ [](heap # {} => /\ HeapTop(heap) # {}
                       /\ \A s \in HeapTop(heap) : \A t \in heap : s.date <= t.date)
    /\ [](HeapTop({}) = {})
    /\ [](\A s, t \in heap \cup executing : \A i, j \in 1..MaxItems :
             Cmp(s, t) = Cmp(Schedule(i, s.date), Schedule(j, t.date)))
    /\ [][(schedPc = "peek" /\ schedPc' = "running")
            => (/\ heap # {}
                /\ \A t \in heap : invoked'[Len(invoked')].date <= t.date
                /\ heap' = heap \ {invoked'[Len(invoked')]})]_vars
    /\ [][(schedPc = "peek" /\ heap = {} /\ schedPc' # schedPc)
            => (schedPc' = "sleep" /\ heap' = {} /\ invoked' = invoked /\ delay' = None)]_vars

\* The item popped and running was pushed after an item still in the heap and
\* has the earlier date.
PoppedEarlierDatePushedLater ==
    /\ schedPc = "running"
    /\ \E s \in executing : \E t \in heap : s.date < t.date /\ s.id > t.id

\* C18 (Mutex held across callbacks): from the drain through every callback
\* to the wait the Scheduler thread holds the Mutex without a gap, so while a
\* callback runs the Communication thread is not pushing, messages stays
\* empty, and what is sent meanwhile stays in the channel or with the
\* Communication thread blocked on lock().
LockHeldAcrossCallbacks ==
    /\ [](schedPc \in {"drain", "exec", "peek", "running", "sleep"}
            => (lockHolder = "sched" /\ relayPc # "post"))
    /\ [](schedPc \in {"exec", "peek", "running", "sleep"} => messages = <<>>)
    /\ [][(schedPc \in {"drain", "exec", "peek", "running"} /\ schedPc' # schedPc)
            => schedPc' \in {"exec", "peek", "running", "sleep", "stopped", "panicked"}]_vars
    /\ [][(executing # {} /\ nextId' # nextId /\ handle' = "alive")
            => (InChannel' = InChannel \cup {nextId} /\ messages' = <<>>)]_vars

\* While a callback runs, the Communication thread has received the next
\* Schedule and is blocked on the Mutex the Scheduler thread holds.
RelayBlockedWhileCallbackRuns ==
    /\ schedPc = "running"
    /\ lockHolder = "sched"
    /\ relayPc = "lock"
    /\ relayMsg # None
    /\ relayMsg[1].type = "Schedule"
    /\ handle = "alive"
    /\ ~poisoned

\* C19 (the sleep timeout is well-formed): when the inner loop ends with a
\* delay recorded, the delay is the date of the earliest item of the heap
\* minus the `now` of the comparison and is positive; its whole seconds are
\* not negative, the nanoseconds of the rest exist and lie in
\* 0..NanosPerSec - 1, neither cast wraps, and the timeout built from them
\* lasts exactly the delay.  When no delay is recorded the heap is empty.
SleepTimeoutWellFormed ==
    schedPc = "sleep" =>
        IF delay = None
          THEN heap = {}
          ELSE LET d   == delay[1]
                   sec == NumSeconds(d)
                   ns  == NumNanoseconds(d - Seconds(sec))
               IN  /\ heap # {}
                   /\ \E s \in HeapTop(heap) : d = s.date - now
                   /\ \A t \in heap : d <= t.date - now
                   /\ d > 0
                   /\ sec >= 0
                   /\ ns # None
                   /\ ns[1] >= 0
                   /\ ns[1] < NanosPerSec
                   /\ AsU64(sec) = Some(sec)
                   /\ AsU32(ns[1]) = Some(ns[1])
                   /\ WaitTicks(SleepDuration(d)) = d

\* The inner loop has ended with a delay of less than a second recorded: the
\* whole seconds are 0 and the nanoseconds are positive.
SleepWithSubSecondDelay ==
    /\ schedPc = "sleep"
    /\ delay # None
    /\ NumSeconds(delay[1]) = 0
    /\ SleepDuration(delay[1]).nanos # None
    /\ SleepDuration(delay[1]).nanos[1] > 0

============================================================================
